---- MODULE Spec2Model ----
(***************************************************************************)
(* Ingestion orchestrator of the RAG system: RAGPipeline.process_document, *)
(* RAGPipeline.delete_document and the views that start them (upload,      *)
(* reprocess, delete_document), over the record store (Document and        *)
(* DocumentChunk rows), the blob store (MinIO), the vector index (Chroma)  *)
(* and the temporary files of the runs; the query path RAGPipeline.query;  *)
(* and DocumentChunker.chunk_text as a function of its text.               *)
(***************************************************************************)
EXTENDS Integers, Sequences, FiniteSets, TLC

\* ------------------------------------------------------------------ bounds
NumDocs == 2        \* documents that are uploaded (primary keys 1..NumDocs)
MaxRuns == 2        \* background threads started over the whole behaviour
MaxChunks == 2      \* most chunks the chunker yields for one extracted text
MaxFiles == 3       \* most files in one multi-file upload

Docs == 1..NumDocs
Runs == 1..MaxRuns
Files == 1..MaxFiles

\* ------------------------------------------------------------- constants
EmbeddingDim == 1    \* len(embeddings[i]) of a vector the encoder returned

VARIABLES
    db,          \* Document table: primary key -> row, or Absent
    nextDoc,     \* next primary key the Document table hands out
    blob,        \* MinIO objects present (one per uploaded document)
    chunkRecs,   \* DocumentChunk table
    index,       \* Chroma collection: entries {id, document_id}
    tempFiles,   \* temporary files on disk, named by the run that made them
    run,         \* background threads: position and locals of process_document
    nextRun,     \* next thread to be started
    del,         \* the delete_document request in progress: position and locals
    qry,         \* the RAGPipeline.query call in progress: position and locals
    chk,         \* the DocumentChunker.chunk_text call: arguments and result
    bulk         \* a multi-file upload: its loop, its documents and its threads

vars == <<db, nextDoc, blob, chunkRecs, index, tempFiles, run, nextRun, del, qry, chk, bulk>>

\* -------------------------------------------------------------- messages
ErrDownload == "Failed to download document from MinIO"
ErrExtract == "Text extraction failed"
ErrNoChunks == "No chunks generated from document"
ErrPersist == "IntegrityError"     \* str(e) of a DocumentChunk.objects.create
ErrDb == "OperationalError"        \* str(e) of a document.save() that raised

\* ------------------------------------------------------------ the tables
\* Document(...) as Document.objects.create makes it: the field defaults.
\* processing_completed is "null", or a time "earlier" than the
\* processing_started of the same row, or one that is "current": not
\* earlier than it.
NewDocument ==
    [status |-> "uploaded", error_message |-> "", total_chunks |-> 0, meta |-> FALSE,
     processing_completed |-> "null"]

\* No row with this primary key in the Document table.
Absent ==
    [status |-> "absent", error_message |-> "", total_chunks |-> 0, meta |-> FALSE,
     processing_completed |-> "null"]

\* A thread slot not started yet; the fields are the locals of
\* process_document: the in-memory document (obj), the extracted text, the
\* chunks, whether they carry embeddings, vector_ids, the loop index of
\* _save_chunks_to_db, the caught exception and the return value.
IdleRun ==
    [pc |-> "idle", doc |-> 0, obj |-> NewDocument, text |-> 0, chunks |-> 0,
     embedded |-> FALSE, vector_ids |-> <<>>, i |-> 0, error |-> "",
     result |-> "none"]

\* No delete_document in progress; chunk_ids is its local of that name.
IdleDel == [pc |-> "idle", doc |-> 0, chunk_ids |-> {}]

\* A thread whose process_document has returned True ("ok") or False
\* ("failed"): its locals are gone.
Returned(d, result) == [IdleRun EXCEPT !.pc = "done", !.doc = d, !.result = result]

\* A thread that an exception has ended: process_document did not return.
Crashed(d) == [IdleRun EXCEPT !.pc = "crashed", !.doc = d]

\* No query call in progress.
IdleQuery ==
    [pc |-> "idle", query_text |-> "", num_results |-> 0, query_embedding |-> <<>>,
     search_raised |-> FALSE, results |-> <<>>, response |-> [query |-> ""]]

\* No chunk_text call made.
IdleChunker == [pc |-> "idle", text |-> <<>>, arg_overlap |-> 0,
                chunk_size |-> 0, chunk_overlap |-> 0, metadata |-> <<>>, chunks |-> <<>>]

\* The thread started for one file of a multi-file upload: own is the
\* Document created in its iteration, arg the Document it gave to
\* rag_pipeline.process_document, marked the Document its handler saved as
\* failed (0: none).
IdleTask == [pc |-> "idle", own |-> 0, arg |-> 0, marked |-> 0]

\* No multi-file upload made. document is the local variable of the view
\* that the loop assigns and the thread targets read; status and calls are,
\* per Document of the request, its status and the number of
\* process_document calls made with it.
IdleBulk ==
    [pc |-> "idle", files |-> <<>>, i |-> 0, document |-> 0, created |-> 0,
     status |-> [d \in Files |-> "absent"], calls |-> [d \in Files |-> 0],
     task |-> [t \in Files |-> IdleTask]]

\* document.chunks: the DocumentChunk rows of one document.
ChunksOf(d) == {c \in chunkRecs : c.document = d}

\* document.save(): UPDATE of every field of the in-memory object, and an
\* INSERT when no row has its primary key.
Save(table, d, obj) == [table EXCEPT ![d] = obj]

\* uuid.uuid4() in add_chunks: a fresh id for every chunk of every call.
Uuid(r, k) == <<r, k>>

\* A finally clause that leaves the temporary file on disk.
ReleaseTempKept(files, r) == files

\* The finally clause of process_document: os.unlink(temp_file.name).
ReleaseTemp(files, r) == files \ {r}

Init ==
    /\ db = [d \in Docs |-> Absent]
    /\ nextDoc = 1
    /\ blob = {}
    /\ chunkRecs = {}
    /\ index = {}
    /\ tempFiles = {}
    /\ run = [r \in Runs |-> IdleRun]
    /\ nextRun = 1
    /\ bulk = IdleBulk
    /\ del = IdleDel
    /\ qry = IdleQuery
    /\ chk = IdleChunker

\* threading.Thread(target=...).start() with the view's in-memory document.
StartThread(d, obj) ==
    /\ nextRun <= MaxRuns
    /\ run' = [run EXCEPT ![nextRun] = [IdleRun EXCEPT !.pc = "start", !.doc = d, !.obj = obj]]
    /\ nextRun' = nextRun + 1

\* DocumentViewSet.upload: put the blob, create the Document, start the thread.
Upload ==
    /\ nextDoc <= NumDocs
    /\ blob' = blob \cup {nextDoc}
    /\ db' = [db EXCEPT ![nextDoc] = NewDocument]
    /\ nextDoc' = nextDoc + 1
    /\ StartThread(nextDoc, NewDocument)
    /\ UNCHANGED <<chunkRecs, index, tempFiles, del, qry, chk, bulk>>

\* A reprocess that refuses no document.
RefusedNever(row) == FALSE

\* if document.status == 'processing': 400 'Document is already being processed'
Refused(row) == row.status = "processing"

\* DocumentViewSet.reprocess: refuse a document that is processing; otherwise
\* delete its DocumentChunk rows and start a thread on the loaded object.
Reprocess(d) ==
    /\ db[d] # Absent
    /\ IF Refused(db[d])
       THEN UNCHANGED vars
       ELSE /\ chunkRecs' = chunkRecs \ ChunksOf(d)
            /\ StartThread(d, db[d])
            /\ UNCHANGED <<db, nextDoc, blob, index, tempFiles, del, qry, chk, bulk>>

\* ------------------------------------------------ process_document, by step
\* The thread in the except clause of process_document: of its locals only
\* the document and the exception are read there.
Caught(d, obj, msg) ==
    [IdleRun EXCEPT !.pc = "except", !.doc = d, !.obj = obj, !.error = msg]

\* An exception leaves the inner try (the finally clause releases the
\* temporary file) and reaches the except clause with its message; obj is
\* the in-memory document at that point.
RaiseWith(r, obj, msg) ==
    /\ run' = [run EXCEPT ![r] = Caught(run[r].doc, obj, msg)]
    /\ tempFiles' = ReleaseTemp(tempFiles, r)

Raise(r, msg) == RaiseWith(r, run[r].obj, msg)

\* processing_completed once processing_started = timezone.now() is
\* assigned: the field itself is not assigned.
Outdated(completed) == IF completed = "null" THEN "null" ELSE "earlier"

\* status = 'processing'; processing_started = now; save(). A save() that
\* raises is caught by the outer try, before any temporary file exists.
Start(r) ==
    /\ run[r].pc = "start"
    /\ LET o == [run[r].obj EXCEPT !.status = "processing",
                                   !.processing_completed =
                                       Outdated(run[r].obj.processing_completed)] IN
        \/ /\ db' = Save(db, run[r].doc, o)
           /\ run' = [run EXCEPT ![r].obj = o, ![r].pc = "download"]
        \/ /\ db' = db
           /\ run' = [run EXCEPT ![r] = Caught(run[r].doc, o, ErrDb)]
    /\ UNCHANGED <<nextDoc, blob, chunkRecs, index, tempFiles, nextRun, del, qry, chk, bulk>>

\* Step 1, _download_document: the temporary file is created, and unlinked
\* again when the download fails; None makes process_document raise before
\* it enters the inner try.
Download(r) ==
    /\ run[r].pc = "download"
    /\ \E ok \in BOOLEAN :
        IF ok /\ run[r].doc \in blob
        THEN /\ tempFiles' = tempFiles \cup {r}
             /\ run' = [run EXCEPT ![r].pc = "extract"]
        ELSE /\ tempFiles' = (tempFiles \cup {r}) \ {r}
             /\ run' = [run EXCEPT ![r] = Caught(run[r].doc, run[r].obj, ErrDownload)]
    /\ UNCHANGED <<db, nextDoc, blob, chunkRecs, index, nextRun, del, qry, chk, bulk>>

\* Step 2, extract_text: a failure raises; otherwise the text is kept, here
\* by the number of chunks the chunker cuts it into (0: no text).
Extract(r) ==
    /\ run[r].pc = "extract"
    /\ \/ Raise(r, ErrExtract)
       \/ \E n \in 0..MaxChunks :
            /\ run' = [run EXCEPT ![r].pc = "meta", ![r].text = n]
            /\ UNCHANGED tempFiles
    /\ UNCHANGED <<db, nextDoc, blob, chunkRecs, index, nextRun, del, qry, chk, bulk>>

\* A step 3 that sets nothing on the object.
WithoutMetadata(obj) == obj

\* document.metadata = ...; document.num_pages = ...
WithMetadata(obj) == [obj EXCEPT !.meta = TRUE]

\* Step 3: metadata and num_pages are set on the object; save()
SaveMeta(r) ==
    /\ run[r].pc = "meta"
    /\ LET o == WithMetadata(run[r].obj) IN
        \/ /\ db' = Save(db, run[r].doc, o)
           /\ run' = [run EXCEPT ![r].obj = o, ![r].pc = "chunk"]
           /\ UNCHANGED tempFiles
        \/ /\ db' = db
           /\ RaiseWith(r, o, ErrDb)
    /\ UNCHANGED <<nextDoc, blob, chunkRecs, index, nextRun, del, qry, chk, bulk>>

\* Step 4, chunk_text: no chunks raises.
Chunk(r) ==
    /\ run[r].pc = "chunk"
    /\ IF run[r].text = 0
       THEN Raise(r, ErrNoChunks)
       ELSE /\ run' = [run EXCEPT ![r].pc = "embed", ![r].chunks = run[r].text]
            /\ UNCHANGED tempFiles
    /\ UNCHANGED <<db, nextDoc, blob, chunkRecs, index, nextRun, del, qry, chk, bulk>>
\* Step 5, generate_chunk_embeddings: generate_embeddings returns [] when the
\* encoder raises, and every chunk then gets embedding [] and embedding_dim 0;
\* the chunks are returned in both cases.
Embed(r) ==
    /\ run[r].pc = "embed"
    /\ \E ok \in BOOLEAN :
        run' = [run EXCEPT ![r].pc = "index", ![r].embedded = ok]
    /\ UNCHANGED <<db, nextDoc, blob, chunkRecs, index, tempFiles, nextRun, del, qry, chk, bulk>>

\* zip(chunks, vector_ids) of _save_chunks_to_db: the pairs it iterates over.
ZipLen(n, ids) == IF n <= Len(ids) THEN n ELSE Len(ids)

\* An add_chunks that returns its ids whether or not collection.add raised.
AddResultAlways(ok, chunk_ids) == chunk_ids

\* What add_chunks returns: chunk_ids after collection.add, [] from its
\* except clause.
AddResult(ok, chunk_ids) == IF ok THEN chunk_ids ELSE <<>>

\* Step 6, add_chunks: one collection.add of all chunks under fresh ids, which
\* returns the ids; an exception of the collection (which it may also raise
\* for chunks whose embedding is []) makes it return [].
AddChunks(r) ==
    /\ run[r].pc = "index"
    /\ \E ok \in BOOLEAN :
        LET n == run[r].chunks
            chunk_ids == [k \in 1..n |-> Uuid(r, k)]
            ids == AddResult(ok, chunk_ids)
        IN  /\ index' = IF ok
                         THEN index \cup {[id |-> chunk_ids[k], document_id |-> run[r].doc] :
                                              k \in 1..n}
                         ELSE index
            /\ run' = [run EXCEPT ![r].vector_ids = ids, ![r].i = 0,
                         ![r].pc = IF ZipLen(n, ids) = 0 THEN "finalize" ELSE "save"]
    /\ UNCHANGED <<db, nextDoc, blob, chunkRecs, tempFiles, nextRun, del, qry, chk, bulk>>

\* The row DocumentChunk.objects.create is asked to insert for pair i.
ChunkRow(r, i) ==
    [document |-> run[r].doc, chunk_id |-> i, chunk_index |-> i,
     vector_store_id |-> run[r].vector_ids[i + 1],
     embedding_dim |-> IF run[r].embedded THEN EmbeddingDim ELSE 0]

\* The constraints of the DocumentChunk table: the foreign key to Document,
\* chunk_id unique, and (document, chunk_index) unique together.
CanInsert(row) ==
    /\ db[row.document] # Absent
    /\ \A c \in chunkRecs : c.chunk_id # row.chunk_id
    /\ \A c \in chunkRecs :
          ~(c.document = row.document /\ c.chunk_index = row.chunk_index)

\* Step 7, _save_chunks_to_db: one iteration of the loop. Each create commits
\* on its own; an exception is logged and raised again.
SaveChunk(r) ==
    /\ run[r].pc = "save"
    /\ LET i == run[r].i
           row == ChunkRow(r, i)
       IN \E ok \in BOOLEAN :
            IF ok /\ CanInsert(row)
            THEN /\ chunkRecs' = chunkRecs \cup {row}
                 /\ run' = [run EXCEPT ![r].i = i + 1,
                       ![r].pc = IF i + 1 < ZipLen(run[r].chunks, run[r].vector_ids)
                                 THEN "save" ELSE "finalize"]
                 /\ UNCHANGED tempFiles
            ELSE /\ Raise(r, ErrPersist)
                 /\ UNCHANGED chunkRecs
    /\ UNCHANGED <<db, nextDoc, blob, index, nextRun, del, qry, chk, bulk>>

\* Step 8: status = 'processed', total_chunks = len(chunks); save(); return
\* True through the finally clause. A save() that raises goes through the
\* finally clause to the except clause.
Finalize(r) ==
    /\ run[r].pc = "finalize"
    /\ LET o == [run[r].obj EXCEPT !.status = "processed",
                                   !.processing_completed = "current",
                                   !.total_chunks = run[r].chunks] IN
        \/ /\ db' = Save(db, run[r].doc, o)
           /\ run' = [run EXCEPT ![r] = Returned(run[r].doc, "ok")]
           /\ tempFiles' = ReleaseTemp(tempFiles, r)
        \/ /\ db' = db
           /\ RaiseWith(r, o, ErrDb)
    /\ UNCHANGED <<nextDoc, blob, chunkRecs, index, nextRun, del, qry, chk, bulk>>

\* The except clause: status = 'failed', error_message = str(e); save();
\* return False. Nothing catches a save() that raises here: the exception
\* leaves process_document and ends the thread.
Except(r) ==
    /\ run[r].pc = "except"
    /\ LET o == [run[r].obj EXCEPT !.status = "failed",
                                   !.error_message = run[r].error,
                                   !.processing_completed = "current"] IN
        \/ /\ db' = Save(db, run[r].doc, o)
           /\ run' = [run EXCEPT ![r] = Returned(run[r].doc, "failed")]
        \/ /\ db' = db
           /\ run' = [run EXCEPT ![r] = Crashed(run[r].doc)]
    /\ UNCHANGED <<nextDoc, blob, chunkRecs, index, tempFiles, nextRun, del, qry, chk, bulk>>

\* --------------------------------------------------- delete_document, by step
\* The view loads the document; delete_file removes the blob. An S3Error is
\* caught inside delete_file and its False is not looked at; any other
\* exception makes delete_document return False with nothing else done.
DeleteBlob(d) ==
    /\ del.pc = "idle"
    /\ db[d] # Absent
    /\ \/ /\ blob' = blob \ {d}
          /\ del' = [IdleDel EXCEPT !.pc = "index", !.doc = d]
       \/ /\ blob' = blob
          /\ del' = [IdleDel EXCEPT !.pc = "index", !.doc = d]
       \/ UNCHANGED <<blob, del>>
    /\ UNCHANGED <<db, nextDoc, chunkRecs, index, tempFiles, run, nextRun, qry, chk, bulk>>

\* delete_chunks(chunk_ids): collection.delete; an exception is caught
\* inside delete_chunks, which then returns False.
DeleteChunks(coll, ids, ok) ==
    IF ok THEN {e \in coll : e.id \notin ids} ELSE coll

\* chunk_ids = the vector_store_id of the document's rows; delete_chunks
\* when there are any, and its result is not looked at.
DeleteIndex ==
    /\ del.pc = "index"
    /\ LET chunk_ids == {c.vector_store_id : c \in ChunksOf(del.doc)} IN
        /\ \E ok \in BOOLEAN :
            index' = IF chunk_ids # {} THEN DeleteChunks(index, chunk_ids, ok) ELSE index
        /\ del' = [del EXCEPT !.pc = "db", !.chunk_ids = chunk_ids]
    /\ UNCHANGED <<db, nextDoc, blob, chunkRecs, tempFiles, run, nextRun, qry, chk, bulk>>

\* document.delete(): the row and, by cascade, its DocumentChunk rows;
\* return True.
DeleteRow ==
    /\ del.pc = "db"
    /\ db' = [db EXCEPT ![del.doc] = Absent]
    /\ chunkRecs' = chunkRecs \ ChunksOf(del.doc)
    /\ del' = IdleDel
    /\ UNCHANGED <<nextDoc, blob, index, tempFiles, run, nextRun, qry, chk, bulk>>

Next ==
    \/ Upload
    \/ \E d \in Docs : Reprocess(d)
    \/ \E r \in Runs : Start(r)
    \/ \E r \in Runs : Download(r)
    \/ \E r \in Runs : Extract(r)
    \/ \E r \in Runs : SaveMeta(r)
    \/ \E r \in Runs : Chunk(r)
    \/ \E r \in Runs : Embed(r)
    \/ \E r \in Runs : AddChunks(r)
    \/ \E r \in Runs : SaveChunk(r)
    \/ \E r \in Runs : Finalize(r)
    \/ \E r \in Runs : Except(r)
    \/ \E d \in Docs : DeleteBlob(d)
    \/ DeleteIndex
    \/ DeleteRow

Spec == Init /\ [][Next]_vars

\* Ingestion alone: uploads, reprocess requests and the runs they start,
\* with no delete request. What a delete can do to a run (the blob gone, the
\* Document row gone) is among the failures the steps of a run choose from.
NextIngest ==
    \/ Upload
    \/ \E d \in Docs : Reprocess(d)
    \/ \E r \in Runs : Start(r)
    \/ \E r \in Runs : Download(r)
    \/ \E r \in Runs : Extract(r)
    \/ \E r \in Runs : SaveMeta(r)
    \/ \E r \in Runs : Chunk(r)
    \/ \E r \in Runs : Embed(r)
    \/ \E r \in Runs : AddChunks(r)
    \/ \E r \in Runs : SaveChunk(r)
    \/ \E r \in Runs : Finalize(r)
    \/ \E r \in Runs : Except(r)

SpecIngest == Init /\ [][NextIngest]_vars

\* ------------------------------------------------------ RAGPipeline.query
MaxResults == 2          \* largest num_results asked for
MaxDistance == 2         \* distances the collection reports: 0..MaxDistance
NoDistance == -1         \* 'distance': None

QueryTexts == {"contract", "tort"}

ErrQueryEmbedding == "Failed to generate query embedding"

\* The response of the except clause of query.
ErrorResponse(query_text, msg) ==
    [query |-> query_text, results |-> <<>>, total_results |-> 0, error |-> msg]

\* A score that does not look for a missing distance.
SimilarityScoreAlways(distance) == 1 - distance

\* result['similarity_score']
SimilarityScore(distance) == IF distance # NoDistance THEN 1 - distance ELSE 0

\* The response of a query whose try block ran to its end.
OkResponse(query_text, results) ==
    [query |-> query_text,
     results |-> [k \in 1..Len(results) |->
                    [id |-> results[k].id, distance |-> results[k].distance,
                     similarity_score |-> SimilarityScore(results[k].distance)]],
     total_results |-> Len(results)]

\* A test of the query embedding that lets every vector through.
NoEmbeddingNever(vec) == FALSE

\* if not query_embedding
NoEmbedding(vec) == Len(vec) = 0

\* What collection.query may return for n_results: at most n_results
\* distinct entries in some order, each with a distance, or all without.
Hits(n_results) ==
    LET ids == {e.id : e \in index}
        m == IF n_results < Cardinality(ids) THEN n_results ELSE Cardinality(ids)
        orders == UNION {{f \in [1..k -> ids] :
                            \A i, j \in 1..k : i # j => f[i] # f[j]} : k \in 0..m}
    IN  UNION {{[k \in 1..Len(f) |-> [id |-> f[k], distance |-> dist[k]]] :
                    dist \in [1..Len(f) -> 0..MaxDistance] \cup {[k \in 1..Len(f) |-> NoDistance]}} :
               f \in orders}

\* query_api_view calls rag_pipeline.query(query_text, num_results).
QueryCall ==
    /\ qry.pc = "idle"
    /\ \E q \in QueryTexts, n \in 1..MaxResults :
          qry' = [IdleQuery EXCEPT !.pc = "embed", !.query_text = q, !.num_results = n]
    /\ UNCHANGED <<db, nextDoc, blob, chunkRecs, index, tempFiles, run, nextRun, del, chk, bulk>>

\* generate_embedding returns the vector, or [] when the encoder raised; an
\* empty vector raises in query, whose except clause builds the response.
QueryEmbed ==
    /\ qry.pc = "embed"
    /\ \E ok \in BOOLEAN :
        LET vec == IF ok THEN [k \in 1..EmbeddingDim |-> 0] ELSE <<>> IN
            IF NoEmbedding(vec)
            THEN qry' = [qry EXCEPT !.query_embedding = vec, !.pc = "done",
                           !.response = ErrorResponse(qry.query_text, ErrQueryEmbedding)]
            ELSE qry' = [qry EXCEPT !.query_embedding = vec, !.pc = "search"]
    /\ UNCHANGED <<db, nextDoc, blob, chunkRecs, index, tempFiles, run, nextRun, del, chk, bulk>>

\* vector_store.search returns the formatted hits, or [] from its except
\* clause when collection.query raised; query scores what it got and
\* returns.
QuerySearch ==
    /\ qry.pc = "search"
    /\ \/ \E results \in Hits(qry.num_results) :
            qry' = [qry EXCEPT !.pc = "done", !.results = results,
                      !.response = OkResponse(qry.query_text, results)]
       \/ qry' = [qry EXCEPT !.pc = "done", !.search_raised = TRUE,
                     !.response = OkResponse(qry.query_text, <<>>)]
    /\ UNCHANGED <<db, nextDoc, blob, chunkRecs, index, tempFiles, run, nextRun, del, chk, bulk>>

\* The Vector Index a query finds: the entries a run left for its chunks.
InitQuery ==
    /\ db = [d \in Docs |-> Absent]
    /\ nextDoc = 1
    /\ blob = {}
    /\ chunkRecs = {}
    /\ \E n \in 0..MaxChunks :
          index = {[id |-> Uuid(1, k), document_id |-> 1] : k \in 1..n}
    /\ tempFiles = {}
    /\ run = [r \in Runs |-> IdleRun]
    /\ nextRun = 1
    /\ bulk = IdleBulk
    /\ del = IdleDel
    /\ qry = IdleQuery
    /\ chk = IdleChunker

NextQuery ==
    \/ QueryCall
    \/ QueryEmbed
    \/ QuerySearch

SpecQuery == InitQuery /\ [][NextQuery]_vars

\* ------------------------------------------- DocumentChunker.chunk_text
\* Texts are sequences of characters. One character stands for each class
\* the regular expressions of the chunker tell apart: word characters,
\* a sentence ending [.!?], whitespace, and a character outside the kept set.
MaxLen == 5              \* longest text given to chunk_text
MaxChunkSize == 3        \* self.chunk_size is drawn from 1..MaxChunkSize
MaxChunkOverlap == 2     \* self.chunk_overlap is drawn from 0..MaxChunkOverlap

\* x or default, of DocumentChunker.__init__: None and 0 give the default.
OrDefault(x, default) == IF x # 0 THEN x ELSE default

\* The metadata argument of chunk_text: None or {} (no key), the caller's
\* own keys, or keys that chunk_text computes itself.
NoMetadata == <<>>
Metadatas ==
    {NoMetadata, [document_id |-> 1], [document_id |-> 1, chunk_id |-> 7, end_sentence |-> 9]}

\* A chunk_text that ignores the metadata argument.
MergedNever(chunk_data, metadata) == chunk_data

\* if metadata: chunk_data.update(metadata)
Merged(chunk_data, metadata) ==
    [key \in DOMAIN chunk_data \cup DOMAIN metadata |->
        IF key \in DOMAIN metadata THEN metadata[key] ELSE chunk_data[key]]

Alphabet == {"a", "b", ".", " ", "#"}

IsSpace(c) == c = " "
IsEnd(c) == c = "."
IsSpecial(c) == c = "#"

TextsOver(chars) == UNION {[1..n -> chars] : n \in 0..MaxLen}

Texts == TextsOver(Alphabet)

\* Texts of words, sentence endings and whitespace.
PlainTexts == TextsOver({"a", ".", " "})

\* str.strip()
RECURSIVE Strip(_)
Strip(s) ==
    IF s = <<>> THEN s
    ELSE IF IsSpace(s[1]) THEN Strip(Tail(s))
    ELSE IF IsSpace(s[Len(s)]) THEN Strip(SubSeq(s, 1, Len(s) - 1))
    ELSE s

\* The concatenation of pieces[lo], ..., pieces[hi], by halves.
RECURSIVE Gather(_, _, _)
Gather(pieces, lo, hi) ==
    IF lo > hi THEN <<>>
    ELSE IF lo = hi THEN pieces[lo]
    ELSE Gather(pieces, lo, (lo + hi) \div 2) \o Gather(pieces, (lo + hi) \div 2 + 1, hi)

\* re.sub(r'\s+', ' ', text): of a run of whitespace the last character stays.
SqueezeSpaces(s) ==
    Gather([i \in 1..Len(s) |->
              IF IsSpace(s[i]) /\ i < Len(s) /\ IsSpace(s[i + 1]) THEN <<>> ELSE <<s[i]>>],
           1, Len(s))

\* re.sub(r'[^\w\s\.\,\;\:\!\?\-\(\)\[\]\{\}\"\']+', ' ', text): a run of
\* characters outside the kept set becomes one space.
ReplaceSpecial(s) ==
    Gather([i \in 1..Len(s) |->
              IF ~IsSpecial(s[i]) THEN <<s[i]>>
              ELSE IF i < Len(s) /\ IsSpecial(s[i + 1]) THEN <<>> ELSE <<" ">>],
           1, Len(s))

\* _clean_text
CleanText(text) == Strip(ReplaceSpecial(SqueezeSpaces(text)))

\* The pieces of s[lo..hi] between its runs of cut positions, by halves: a
\* run that crosses the middle is one run, and the text on both sides of the
\* middle is one piece otherwise.
RECURSIVE Pieces(_, _, _, _)
Pieces(s, cut, lo, hi) ==
    IF lo > hi THEN << <<>> >>
    ELSE IF lo = hi THEN (IF cut[lo] THEN << <<>>, <<>> >> ELSE << <<s[lo]>> >>)
    ELSE LET mid == (lo + hi) \div 2
             left == Pieces(s, cut, lo, mid)
             right == Pieces(s, cut, mid + 1, hi)
         IN  IF cut[mid] /\ cut[mid + 1]
             THEN SubSeq(left, 1, Len(left) - 1) \o Tail(right)
             ELSE SubSeq(left, 1, Len(left) - 1)
                    \o << left[Len(left)] \o right[1] >> \o Tail(right)

\* re.split(r'(?<=[.!?])\s+', text): a position is cut out when it lies in a
\* run of whitespace that follows a sentence ending.
ReSplit(s) ==
    LET cut[i \in 1..Len(s)] ==
            IsSpace(s[i]) /\ i > 1 /\ (IsEnd(s[i - 1]) \/ cut[i - 1])
    IN  Pieces(s, cut, 1, Len(s))

\* [s.strip() for s in sentences if s.strip()]
RECURSIVE StripAll(_)
StripAll(pieces) ==
    IF pieces = <<>> THEN <<>>
    ELSE IF Strip(pieces[1]) = <<>> THEN StripAll(Tail(pieces))
    ELSE <<Strip(pieces[1])>> \o StripAll(Tail(pieces))

\* _split_into_sentences
SplitIntoSentences(text) == StripAll(ReSplit(text))

\* An overlap loop that takes every sentence of the chunk.
OverlapSentencesAll(sentences, budget) == sentences

\* The loop of _get_overlap_text over reversed(sentences): sentences are
\* taken from the end while their accumulated length stays within budget.
RECURSIVE OverlapSentences(_, _)
OverlapSentences(sentences, budget) ==
    IF sentences = <<>> THEN <<>>
    ELSE LET last == sentences[Len(sentences)] IN
        IF Len(last) <= budget
        THEN OverlapSentences(SubSeq(sentences, 1, Len(sentences) - 1), budget - Len(last))
                \o <<last>>
        ELSE <<>>

\* ' '.join(...)
RECURSIVE Join(_)
Join(strs) ==
    IF strs = <<>> THEN <<>>
    ELSE IF Len(strs) = 1 THEN strs[1]
    ELSE strs[1] \o <<" ">> \o Join(Tail(strs))

\* _get_overlap_text
GetOverlapText(chunk_text, chunk_overlap) ==
    IF chunk_text = <<>> \/ Len(chunk_text) <= chunk_overlap THEN <<>>
    ELSE Join(OverlapSentences(SplitIntoSentences(chunk_text), chunk_overlap))

\* str.find: the lowest 0-based index at which sub occurs, or -1.
Find(text, sub) ==
    LET at == {k \in 0..(Len(text) - Len(sub)) : SubSeq(text, k + 1, k + Len(sub)) = sub}
    IN  IF at = {} THEN -1 ELSE CHOOSE k \in at : \A j \in at : k <= j

\* len(overlap_text.split('.'))
SplitCount(s) == Cardinality({k \in 1..Len(s) : s[k] = "."}) + 1

\* chunk_data of chunk_text, for the chunk that ends with sentence end.
ChunkData(text, current_chunk, chunks, chunk_start, end) ==
    [text |-> Strip(current_chunk),
     chunk_id |-> Len(chunks),
     start_sentence |-> chunk_start,
     end_sentence |-> end,
     char_start |-> Find(text, Strip(current_chunk)),
     char_end |-> Find(text, Strip(current_chunk)) + Len(Strip(current_chunk))]

\* A new chunk that starts without the sentence that did not fit.
NewChunkDropped(overlap_text, sentence) == overlap_text

\* current_chunk = overlap_text + sentence
NewChunk(overlap_text, sentence) == overlap_text \o sentence

\* A loop that never seals a chunk.
ExceedsNever(current_chunk, sentence, chunk_size) == FALSE

\* if len(current_chunk) + len(sentence) > self.chunk_size and current_chunk
Exceeds(current_chunk, sentence, chunk_size) ==
    Len(current_chunk) + Len(sentence) > chunk_size /\ current_chunk # <<>>

\* The for loop of chunk_text from sentence i (0-based) on, and the final
\* chunk after it.
RECURSIVE ChunkLoop(_, _, _, _, _, _, _, _, _)
ChunkLoop(text, sentences, i, current_chunk, chunk_start, chunks, chunk_size, chunk_overlap, metadata) ==
    IF i = Len(sentences)
    THEN IF Strip(current_chunk) # <<>>
         THEN Append(chunks, Merged(ChunkData(text, current_chunk, chunks, chunk_start,
                                              Len(sentences) - 1), metadata))
         ELSE chunks
    ELSE LET sentence == sentences[i + 1] IN
        IF Exceeds(current_chunk, sentence, chunk_size)
        THEN LET overlap_text == GetOverlapText(current_chunk, chunk_overlap) IN
             ChunkLoop(text, sentences, i + 1, NewChunk(overlap_text, sentence),
                       IF overlap_text # <<>> THEN i - SplitCount(overlap_text) ELSE i,
                       Append(chunks, Merged(ChunkData(text, current_chunk, chunks,
                                                       chunk_start, i - 1), metadata)),
                       chunk_size, chunk_overlap, metadata)
        ELSE ChunkLoop(text, sentences, i + 1, current_chunk \o sentence, chunk_start,
                       chunks, chunk_size, chunk_overlap, metadata)

\* chunk_text
ChunkText(text, metadata, chunk_size, chunk_overlap) ==
    IF Strip(text) = <<>> THEN <<>>
    ELSE ChunkLoop(CleanText(text), SplitIntoSentences(CleanText(text)), 0, <<>>, 0, <<>>,
                   chunk_size, chunk_overlap, metadata)

\* chunker.chunk_text(text, metadata)
Call(metadata) ==
    /\ chk.pc = "ready"
    /\ chk' = [chk EXCEPT !.pc = "done", !.metadata = metadata,
                 !.chunks = ChunkText(chk.text, metadata, chk.chunk_size, chk.chunk_overlap)]
    /\ UNCHANGED <<db, nextDoc, blob, chunkRecs, index, tempFiles, run, nextRun, del, qry, bulk>>

\* A call of chunk_text with the text alone.
ChunkTextCall == Call(NoMetadata)

\* A call of chunk_text with a metadata dictionary, as process_document and
\* chunk_by_pages make it.
ChunkTextWith == \E metadata \in Metadatas \ {NoMetadata} : Call(metadata)

\* A text of texts, given to a chunker DocumentChunker(size, overlap) of any
\* size and overlap; for overlap 0 the constructor takes
\* settings.CHUNK_OVERLAP, which is any overlap again.
InitChunkOver(texts) ==
    /\ db = [d \in Docs |-> Absent]
    /\ nextDoc = 1
    /\ blob = {}
    /\ chunkRecs = {}
    /\ index = {}
    /\ tempFiles = {}
    /\ run = [r \in Runs |-> IdleRun]
    /\ nextRun = 1
    /\ bulk = IdleBulk
    /\ del = IdleDel
    /\ qry = IdleQuery
    /\ \E t \in texts, size \in 1..MaxChunkSize, overlap \in 0..MaxChunkOverlap :
        \E CHUNK_OVERLAP \in (IF overlap = 0 THEN 0..MaxChunkOverlap ELSE {0}) :
          chk = [IdleChunker EXCEPT !.pc = "ready", !.text = t, !.arg_overlap = overlap,
                   !.chunk_size = size,
                   !.chunk_overlap = OrDefault(overlap, CHUNK_OVERLAP)]

InitChunk == InitChunkOver(Texts)

NextChunk == ChunkTextCall

SpecChunk == InitChunk /\ [][NextChunk]_vars

NextChunkMeta ==
    \/ ChunkTextCall
    \/ ChunkTextWith

InitChunkMeta == InitChunkOver(PlainTexts)

SpecChunkMeta == InitChunkMeta /\ [][NextChunkMeta]_vars

\* Scenario A: DocumentChunker(100, 20) and a text of three sentences of 60
\* characters each, a sentence being 59 word characters and its ending, with
\* 1..MaxGap whitespace characters between two sentences.
MaxGap == 3

Sentence60(c) == [k \in 1..60 |-> IF k = 60 THEN "." ELSE c]

Spaces(n) == [k \in 1..n |-> " "]

InitScenarioA ==
    /\ db = [d \in Docs |-> Absent]
    /\ nextDoc = 1
    /\ blob = {}
    /\ chunkRecs = {}
    /\ index = {}
    /\ tempFiles = {}
    /\ run = [r \in Runs |-> IdleRun]
    /\ nextRun = 1
    /\ bulk = IdleBulk
    /\ del = IdleDel
    /\ qry = IdleQuery
    /\ \E c1, c2, c3 \in {"a", "b"}, n1, n2 \in 1..MaxGap :
          chk = [IdleChunker EXCEPT !.pc = "ready",
                   !.text = Sentence60(c1) \o Spaces(n1) \o Sentence60(c2)
                               \o Spaces(n2) \o Sentence60(c3),
                   !.arg_overlap = 20,
                   !.chunk_size = 100,
                   !.chunk_overlap = OrDefault(20, 0)]

SpecScenarioA == InitScenarioA /\ [][NextChunk]_vars

\* ------------------------------------------- upload_view and bulk_upload
\* The two multi-file views run the same loop. A file is accepted when it
\* is a PDF of at most 50 MB whose MinIO upload and Document.objects.create
\* succeed; any other file is recorded in failed_files and the loop goes on.
FileLists == UNION {[1..n -> BOOLEAN] : n \in 1..MaxFiles}

\* The request arrives with its files.
BulkCall ==
    /\ bulk.pc = "idle"
    /\ \E files \in FileLists :
          bulk' = [bulk EXCEPT !.pc = "loop", !.files = files, !.i = 1]
    /\ UNCHANGED <<db, nextDoc, blob, chunkRecs, index, tempFiles, run, nextRun, del, qry, chk>>

\* One iteration of `for i, file_obj in enumerate(files)`: a file that is
\* not accepted is skipped; for an accepted one the Document is created and
\* assigned to the view's local `document`, the function process_document is
\* defined (it names `document`, and takes no argument) and its thread is
\* started.
BulkIteration ==
    /\ bulk.pc = "loop"
    /\ bulk.i <= Len(bulk.files)
    /\ IF bulk.files[bulk.i]
       THEN LET d == bulk.created + 1 IN
            bulk' = [bulk EXCEPT !.i = bulk.i + 1,
                                 !.created = d,
                                 !.document = d,
                                 !.status[d] = "uploaded",
                                 !.task[bulk.i] = [IdleTask EXCEPT !.pc = "started",
                                                                   !.own = d]]
       ELSE bulk' = [bulk EXCEPT !.i = bulk.i + 1]
    /\ UNCHANGED <<db, nextDoc, blob, chunkRecs, index, tempFiles, run, nextRun, del, qry, chk>>

\* The loop is over and the view returns its response; the threads go on.
BulkReturn ==
    /\ bulk.pc = "loop"
    /\ bulk.i > Len(bulk.files)
    /\ bulk' = [bulk EXCEPT !.pc = "done"]
    /\ UNCHANGED <<db, nextDoc, blob, chunkRecs, index, tempFiles, run, nextRun, del, qry, chk>>

\* The thread evaluates rag_pipeline.process_document(document): `document`
\* is the variable of the view, read when the call is made.
TaskCall(t) ==
    /\ bulk.task[t].pc = "started"
    /\ LET d == bulk.document IN
        bulk' = [bulk EXCEPT !.task[t].pc = "running",
                             !.task[t].arg = d,
                             !.calls[d] = bulk.calls[d] + 1]
    /\ UNCHANGED <<db, nextDoc, blob, chunkRecs, index, tempFiles, run, nextRun, del, qry, chk>>

\* process_document(arg) returns True with arg processed, returns False with
\* arg failed, or raises out of its except clause, arg being left as it was
\* or as its first save left it.
TaskProcess(t) ==
    /\ bulk.task[t].pc = "running"
    /\ LET d == bulk.task[t].arg IN
        \/ \E status \in {"processed", "failed"} :
              bulk' = [bulk EXCEPT !.task[t].pc = "done", !.status[d] = status]
        \/ \E status \in {bulk.status[d], "processing"} :
              bulk' = [bulk EXCEPT !.task[t].pc = "except", !.status[d] = status]
    /\ UNCHANGED <<db, nextDoc, blob, chunkRecs, index, tempFiles, run, nextRun, del, qry, chk>>

\* except Exception of the thread target: document.status = 'failed';
\* document.save(), `document` being read again; the save may raise.
TaskExcept(t) ==
    /\ bulk.task[t].pc = "except"
    /\ LET d == bulk.document IN
        \/ bulk' = [bulk EXCEPT !.task[t].pc = "done", !.task[t].marked = d,
                                !.status[d] = "failed"]
        \/ bulk' = [bulk EXCEPT !.task[t].pc = "crashed"]
    /\ UNCHANGED <<db, nextDoc, blob, chunkRecs, index, tempFiles, run, nextRun, del, qry, chk>>

NextBulk ==
    \/ BulkCall
    \/ BulkIteration
    \/ BulkReturn
    \/ \E t \in Files : TaskCall(t)
    \/ \E t \in Files : TaskProcess(t)
    \/ \E t \in Files : TaskExcept(t)

SpecBulk == Init /\ [][NextBulk]_vars
\* ------------------------------------------------------------ properties
InFlight(r) == run[r].pc \notin {"idle", "done", "crashed"}

\* The Vector Index entries a run's add_chunks created.
EntriesOfRun(r) == {e \in index : e.id[1] = r}

IndexIds == {e.id : e \in index}

\* C1: a Document whose status is processed has as many Chunk records as its
\* total_chunks, and each of them holds a vector_ref of an entry that is in
\* the Vector Index.
C1_ProcessedIsComplete ==
    \A d \in Docs :
        db[d].status = "processed" =>
            /\ Cardinality(ChunksOf(d)) = db[d].total_chunks
            /\ \A c \in ChunksOf(d) : c.vector_store_id \in IndexIds

\* C2: when a run that wrote Vector Index entries in step 6 has ended with
\* the Document marked failed, none of the entries it created is left.
C2_RollbackOnFailure ==
    \A r \in Runs :
        (run[r].pc = "done" /\ run[r].result = "failed") => EntriesOfRun(r) = {}

\* C3: an accepted reprocess request leaves neither a Chunk record of the
\* Document nor a Vector Index entry those records referred to.
C3_ReprocessClearsIndex ==
    [][\A d \in Docs :
          (nextDoc' = nextDoc /\ nextRun' = nextRun + 1 /\ run'[nextRun].doc = d) =>
              /\ ChunksOf(d)' = {}
              /\ \A c \in ChunksOf(d) : c.vector_store_id \notin IndexIds']_vars

\* The four edges of the Document state machine.
StatusEdges ==
    {<<"uploaded", "processing">>, <<"processing", "processed">>,
     <<"processing", "failed">>, <<"failed", "processing">>}

\* C4: every change of the status of a Document follows one of the four
\* edges uploaded->processing, processing->processed, processing->failed,
\* failed->processing.
C4_OnlyStatusEdges ==
    [][\A d \in Docs :
          (db[d] # Absent /\ db'[d] # Absent /\ db'[d].status # db[d].status) =>
              <<db[d].status, db'[d].status>> \in StatusEdges]_vars

\* C5: at most one processing run per Document is in progress at any time.
C5_OneRunPerDocument ==
    \A r1, r2 \in Runs :
        (r1 # r2 /\ InFlight(r1) /\ InFlight(r2)) => run[r1].doc # run[r2].doc

\* C6: a run whose Vector Index upsert returned a number of ids different
\* from its number of chunk candidates never marks the Document processed.
C6_MismatchNeverProcessed ==
    [][\A r \in Runs :
          (run[r].pc = "finalize" /\ run'[r].result = "ok") =>
              Len(run[r].vector_ids) = run[r].chunks]_vars

\* C7: no run goes past step 5 with chunk candidates that have no vector:
\* after the embedding step every candidate carries an embedding.
C7_EncoderFailureSurfaces ==
    \A r \in Runs :
        run[r].pc \in {"index", "save", "finalize"} => run[r].embedded

\* C8: at the end of a run that marks the Document failed, no Chunk record
\* of that Document exists.
C8_FailedHasNoChunks ==
    [][\A r \in Runs :
          (run[r].pc = "except" /\ run'[r].pc = "done") =>
              ChunksOf(run[r].doc)' = {}]_vars

\* C9: the temporary file of a run exists only between its download and the
\* end of its inner try; after process_document has returned, with True or
\* with False, it does not exist.
C9_TempFileReleased ==
    \A r \in Runs :
        run[r].pc \in {"idle", "start", "download", "except", "done", "crashed"} =>
            r \notin tempFiles

\* C9 witness: one run has returned True and another has returned False
\* after a failure that followed its download.
C9_Witness ==
    \E r1, r2 \in Runs :
        /\ run[r1].pc = "done" /\ run[r1].result = "ok"
        /\ run[r2].pc = "done" /\ run[r2].result = "failed"
        /\ db[run[r2].doc].status = "failed"
        /\ db[run[r2].doc].error_message \in {ErrExtract, ErrNoChunks, ErrPersist}

\* C10: when delete_document returns True, no Vector Index entry that the
\* Document's Chunk records referred to is left, and no Chunk record of it.
C10_DeleteLeavesNothing ==
    [][(del.pc = "db" /\ del'.pc = "idle") =>
          /\ \A id \in del.chunk_ids : id \notin IndexIds'
          /\ ChunksOf(del.doc)' = {}]_vars

\* C13: whether a run can insert the Chunk record it is about to persist
\* depends only on the records of its own Document: when the Document exists
\* and holds no record with the same chunk_index, the insert is accepted,
\* whatever records other Documents hold.
C13_RunsIndependent ==
    \A r \in Runs :
        run[r].pc = "save" =>
            LET row == ChunkRow(r, run[r].i) IN
                (/\ db[row.document] # Absent
                 /\ \A c \in ChunksOf(row.document) : c.chunk_index # row.chunk_index)
                    => CanInsert(row)

\* The Vector Index entries of a Document.
EntriesOfDoc(d) == {e \in index : e.document_id = d}

\* A step of a request (upload, reprocess), not of a running thread nor of
\* delete_document.
RequestStep == del' = del /\ \A r \in Runs : run[r].pc = "idle" \/ run'[r] = run[r]

\* C14: while the status of a Document is processing, no reprocess request
\* starts a run for it, and no request deletes a Chunk record of it, touches
\* a Vector Index entry of it or changes its status.
C14_ReprocessRefused ==
    [][\A d \in Docs :
          db[d].status = "processing" =>
              /\ ~(nextRun' = nextRun + 1 /\ nextDoc' = nextDoc /\ run'[nextRun].doc = d)
              /\ RequestStep =>
                    /\ ChunksOf(d)' = ChunksOf(d)
                    /\ EntriesOfDoc(d)' = EntriesOfDoc(d)
                    /\ db'[d] = db[d]]_vars

\* C14 witness: a reprocess request can arrive for a Document that is
\* processing, has Chunk records and Vector Index entries, while a thread
\* could still be started.
C14_Witness ==
    \E d \in Docs :
        /\ db[d].status = "processing"
        /\ ChunksOf(d) # {}
        /\ \E e \in index : e.document_id = d
        /\ nextRun <= MaxRuns

\* C15: every Chunk record is created with the id of an entry that is in
\* the Vector Index at that moment; no record is persisted before its vector
\* was written, and none without a vector_ref.
C15_RecordAfterIndex ==
    [][\A c \in chunkRecs' \ chunkRecs : c.vector_store_id \in IndexIds]_vars

\* C15 witness: a run whose add_chunks failed has ended without any Chunk
\* record, and a run whose add_chunks succeeded has persisted a record.
C15_Witness ==
    /\ \E r \in Runs : run[r].pc = "done" /\ EntriesOfRun(r) = {}
                        /\ db[run[r].doc].status = "processed"
                        /\ ChunksOf(run[r].doc) = {}
    /\ \E c \in chunkRecs : c.vector_store_id \in IndexIds

\* C16: a run whose extraction yielded no text does not go on to step 3 or
\* step 4.
C16_EmptyExtractionAborts ==
    \A r \in Runs : run[r].pc \in {"meta", "chunk"} => run[r].text > 0

\* C17: when a run goes on from step 3 to chunking, the metadata are stored
\* on the Document; and when a run that failed in a step after extraction
\* marks the Document failed, the metadata are stored on it.
C17_MetadataSurvives ==
    [][\A r \in Runs :
          /\ (run[r].pc = "meta" /\ run'[r].pc = "chunk") => db'[run[r].doc].meta
          /\ (/\ run[r].pc = "except"
              /\ run[r].error \in {ErrNoChunks, ErrPersist}
              /\ run'[r].pc = "done")
                => (db'[run[r].doc].status = "failed" /\ db'[run[r].doc].meta)]_vars

\* C17 witness: the only run of a Document failed in chunking or in record
\* persistence and the Document is failed with its metadata stored.
C17_Witness ==
    \E d \in Docs :
        /\ db[d].status = "failed"
        /\ db[d].error_message \in {ErrNoChunks, ErrPersist}
        /\ db[d].meta
        /\ \A r \in Runs : run[r].doc = d => r = d

C19_ProcessingHasRun ==
    \A d \in Docs :
        db[d].status = "processing" => \E r \in Runs : InFlight(r) /\ run[r].doc = d

\* C11: a query whose Vector Index search raised returns a response with an
\* error field.
C11_SearchFailureReported ==
    (qry.pc = "done" /\ qry.search_raised) => "error" \in DOMAIN qry.response

\* C12: a query whose embedding came back empty goes from the embedding step
\* straight to its return, without the search step, with a response that
\* has an empty result list, total_results 0 and an error field.
C12_NoVectorAborts ==
    [][(qry.pc = "embed" /\ qry'.query_embedding = <<>>) =>
          /\ qry'.pc = "done"
          /\ qry'.response.results = <<>>
          /\ qry'.response.total_results = 0
          /\ "error" \in DOMAIN qry'.response
          /\ qry'.response.error = ErrQueryEmbedding
          /\ ~qry'.search_raised]_vars

\* C12 witness: a query has returned after its embedding came back empty,
\* over a Vector Index that holds entries.
C12_Witness ==
    /\ qry.pc = "done"
    /\ qry.query_embedding = <<>>
    /\ index # {}

\* The concatenation of a list of strings.
RECURSIVE Concat(_)
Concat(strs) == IF strs = <<>> THEN <<>> ELSE strs[1] \o Concat(Tail(strs))

\* The text of chunk k without its overlap prefix: what follows the overlap
\* text taken from the chunk before it.
Body(chunks, k, chunk_overlap) ==
    LET prefix == IF k = 1 THEN <<>>
                  ELSE GetOverlapText(chunks[k - 1].text, chunk_overlap)
    IN  SubSeq(chunks[k].text, Len(prefix) + 1, Len(chunks[k].text))

\* C20: the chunks returned by chunk_text, read in order without their
\* overlap prefixes, are the sentences of the normalized text, each once and
\* in their order.
C20_ChunksCoverSentences ==
    chk.pc = "done" =>
        Concat([k \in 1..Len(chk.chunks) |-> Body(chk.chunks, k, chk.chunk_overlap)])
            = Concat(SplitIntoSentences(CleanText(chk.text)))

\* C20 witness: a text of three sentences was cut into two chunks.
C20_Witness ==
    /\ chk.pc = "done"
    /\ Len(SplitIntoSentences(CleanText(chk.text))) = 3
    /\ Len(chk.chunks) = 2

\* The sentences chunk_text cuts its text into.
Sentences == SplitIntoSentences(CleanText(chk.text))

\* Of the sentences, those with 0-based indexes from..to, concatenated.
Span(sentences, from, to) == Concat(SubSeq(sentences, from + 1, to + 1))

\* C21: with chunk size S and overlap 0 asked for, every chunk is at most S
\* long or is one sentence longer than S, and the chunks are made of whole
\* sentences: each is the concatenation of the sentences of its span, and
\* the spans follow one another from the first sentence to the last.
C21_ChunkWithinSize ==
    (chk.pc = "done" /\ chk.arg_overlap = 0) =>
        LET sentences == Sentences IN
        \A k \in 1..Len(chk.chunks) :
            LET c == chk.chunks[k] IN
                /\ c.start_sentence = IF k = 1 THEN 0 ELSE chk.chunks[k - 1].end_sentence + 1
                /\ c.start_sentence <= c.end_sentence
                /\ k = Len(chk.chunks) => c.end_sentence = Len(sentences) - 1
                /\ c.text = Span(sentences, c.start_sentence, c.end_sentence)
                /\ \/ Len(c.text) <= chk.chunk_size
                   \/ c.start_sentence = c.end_sentence

\* C21 witness: a chunker asked for overlap 0, which took a positive overlap
\* from the settings, returned two chunks, one of them longer than its size.
C21_Witness ==
    /\ chk.pc = "done"
    /\ chk.arg_overlap = 0
    /\ chk.chunk_overlap > 0
    /\ Len(chk.chunks) >= 2
    /\ \E k \in 1..Len(chk.chunks) : Len(chk.chunks[k].text) > chk.chunk_size

\* C22: with a positive overlap, a chunk that follows a chunk which is not
\* shorter than the overlap, and whose last sentence fits in the overlap,
\* starts with text of that chunk: it is longer than its own sentences.
C22_AdjacentShareOverlap ==
    (chk.pc = "done" /\ chk.chunk_overlap > 0) =>
        LET sentences == Sentences IN
        \A k \in 1..(Len(chk.chunks) - 1) :
            LET c == chk.chunks[k]
                next == chk.chunks[k + 1]
            IN  (/\ Len(c.text) >= chk.chunk_overlap
                 /\ Len(sentences[c.end_sentence + 1]) <= chk.chunk_overlap)
                    => Len(next.text) >
                         Len(Span(sentences, c.end_sentence + 1, next.end_sentence))

\* C26: the character range of every chunk locates its text in the
\* normalized text.
C26_CharRangeLocatesChunk ==
    chk.pc = "done" =>
        \A k \in 1..Len(chk.chunks) :
            LET c == chk.chunks[k] IN
                /\ 0 <= c.char_start
                /\ c.char_start <= c.char_end
                /\ SubSeq(CleanText(chk.text), c.char_start + 1, c.char_end) = c.text

\* C27: in every chunk a key of the caller's metadata holds the caller's
\* value; of the computed keys that the caller did not supply, chunk_id is
\* the position of the chunk counted from 0, and the sentence span is not
\* empty, lies in the sentence list and names the sentences that make up the
\* text of the chunk.
C27_IndexesAndSpans ==
    chk.pc = "done" =>
        LET sentences == Sentences IN
        \A k \in 1..Len(chk.chunks) :
            LET c == chk.chunks[k]
                given == DOMAIN chk.metadata
            IN  /\ \A key \in given : key \in DOMAIN c /\ c[key] = chk.metadata[key]
                /\ "chunk_id" \notin given => c.chunk_id = k - 1
                /\ "end_sentence" \notin given =>
                      /\ 0 <= c.start_sentence
                      /\ c.start_sentence <= c.end_sentence
                      /\ c.end_sentence < Len(sentences)
                      /\ c.text = Span(sentences, c.start_sentence, c.end_sentence)

\* C27 witness: chunk_text returned two chunks for a call whose metadata
\* supplied chunk_id, and two chunks, one of two sentences, for a call whose
\* metadata supplied no computed key.
C27_Witness ==
    /\ chk.pc = "done"
    /\ Len(chk.chunks) = 2
    /\ \/ "chunk_id" \in DOMAIN chk.metadata
       \/ /\ DOMAIN chk.metadata = {"document_id"}
          /\ chk.chunks[1].end_sentence = 1

\* C23 as stated: scenario A yields exactly 2 chunks, the second of which
\* begins with the overlap text selected from the first.
C23_ScenarioTwoChunks ==
    (chk.pc = "done" /\ chk.chunk_size = 100 /\ chk.chunk_overlap = 20) =>
        /\ Len(chk.chunks) = 2
        /\ LET prefix == GetOverlapText(chk.chunks[1].text, chk.chunk_overlap) IN
              SubSeq(chk.chunks[2].text, 1, Len(prefix)) = prefix

\* C23: scenario A yields exactly 3 chunks, each of them one of the three
\* sentences, in order and with no overlap text before it: no sentence of 60
\* characters fits in an overlap of 20.
C23_ScenarioThreeChunks ==
    (chk.pc = "done" /\ chk.chunk_size = 100 /\ chk.chunk_overlap = 20) =>
        LET sentences == Sentences IN
        /\ Len(chk.chunks) = 3
        /\ Len(sentences) = 3
        /\ \A k \in 1..3 : chk.chunks[k].text = sentences[k] /\ Len(sentences[k]) = 60

\* C23 witness: chunk_text has returned for a text of scenario A.
C23_Witness ==
    /\ chk.pc = "done"
    /\ chk.chunk_size = 100
    /\ chk.chunk_overlap = 20
    /\ Len(chk.text) >= 182
    /\ chk.chunks # <<>>

\* C24: a query whose search returned has, in its response, the results of
\* the search in their order, none added and none dropped, at most
\* num_results of them, each with similarity_score 1 - distance when it has
\* a distance and 0 otherwise, and total_results is their number.
C24_ResultsAsReturned ==
    (qry.pc = "done" /\ qry.query_embedding # <<>> /\ ~qry.search_raised) =>
        LET out == qry.response.results IN
            /\ "error" \notin DOMAIN qry.response
            /\ Len(out) = Len(qry.results)
            /\ Len(out) <= qry.num_results
            /\ qry.response.total_results = Len(out)
            /\ \A k \in 1..Len(out) :
                  /\ out[k].id = qry.results[k].id
                  /\ out[k].distance = qry.results[k].distance
                  /\ out[k].similarity_score =
                        IF out[k].distance = NoDistance THEN 0 ELSE 1 - out[k].distance

\* C24 witness: a query has returned two results, the first of them farther
\* than the second, and a query has returned a result without a distance.
C24_Witness ==
    /\ qry.pc = "done"
    /\ \/ /\ Len(qry.response.results) = 2
          /\ qry.response.results[1].distance > qry.response.results[2].distance
          /\ qry.response.results[2].distance # NoDistance
       \/ /\ Len(qry.response.results) = 1
          /\ qry.response.results[1].distance = NoDistance

\* The Chunk records whose vector_ref a run's add_chunks produced.
ChunksOfRun(r) == {c \in chunkRecs : c.vector_store_id[1] = r}

\* C25: a run whose chunker yields zero chunks goes from chunking to its
\* failure handler without the embedding step, and when that run ends the
\* Document is failed with the message of the abort and the run has created
\* no Vector Index entry and no Chunk record.
C25_ZeroChunksAborts ==
    [][\A r \in Runs :
          /\ (run[r].pc = "chunk" /\ run[r].text = 0 /\ run'[r] # run[r]) =>
                (run'[r].pc = "except" /\ run'[r].error = ErrNoChunks)
          /\ (/\ run[r].pc = "except"
              /\ run[r].error = ErrNoChunks
              /\ run'[r].pc \in {"done", "crashed"})
                => /\ db'[run[r].doc].status = "failed"
                   /\ db'[run[r].doc].error_message = ErrNoChunks
                   /\ EntriesOfRun(r)' = {}
                   /\ ChunksOfRun(r)' = {}]_vars

\* C28: in a multi-file upload every thread gives to process_document the
\* Document created for its own file, the failure handler of a thread marks
\* no Document but its own, and once the request and its threads are over
\* every Document of the request was given to process_document exactly once.
C28_OwnDocument ==
    /\ \A t \in Files :
          /\ bulk.task[t].pc \in {"running", "except", "done", "crashed"} =>
                bulk.task[t].arg = bulk.task[t].own
          /\ bulk.task[t].marked \in {0, bulk.task[t].own}
    /\ (bulk.pc = "done" /\ \A t \in Files : bulk.task[t].pc \in {"idle", "done", "crashed"}) =>
          \A d \in 1..bulk.created : bulk.calls[d] = 1

\* C29: a Document that delete_document has deleted does not reappear in the
\* Document table, and when a run that was in flight during the deletion
\* has ended, with the deletion over, no Vector Index entry and no Chunk
\* record that the run created exists.
C29_DeletedStaysDeleted ==
    [][/\ \A d \in Docs : (d < nextDoc /\ db[d] = Absent) => db'[d] = Absent
       /\ \A r \in Runs :
             (/\ InFlight(r)
              /\ ~InFlight(r)'
              /\ db'[run[r].doc] = Absent
              /\ del'.doc # run[r].doc)
                => (EntriesOfRun(r)' = {} /\ ChunksOfRun(r)' = {})]_vars

\* C30: a Document whose status is processed has an empty error message and
\* a completion time not earlier than its start time, and a Document whose
\* status is processing shows no error message and no completion time of an
\* earlier run.
C30_NoStaleOutcome ==
    \A d \in Docs :
        /\ db[d].status = "processed" =>
              (db[d].error_message = "" /\ db[d].processing_completed = "current")
        /\ db[d].status = "processing" =>
              (db[d].error_message = "" /\ db[d].processing_completed = "null")
====
